---- MODULE Spec2Model ----
(***************************************************************************)
(* Translation job lifecycle of translator_app_with_aws.                   *)
(*                                                                         *)
(*   Spec       the server: lambda_handler of lambda_function.py           *)
(*              (parse, validate, audit write, per-pair translation,       *)
(*              result write, response).                                   *)
(*   PollSpec   the result pollers of the clients: the loop of             *)
(*              InteractiveTranslationCLI.translate, the loop of           *)
(*              TranslationGUI.run_translation and the loop of             *)
(*              TranslationGUI.retry_fetch_translations.                   *)
(*   BatchSpec  one run of a command-line client: the chunking of          *)
(*              InteractiveTranslationCLI.translate /                      *)
(*              _translate_in_batches and of TranslationCLI.translate_file,*)
(*              the submission of every chunk and the accumulation of the  *)
(*              per-language results.                                      *)
(*   HistSpec   the history ledger of the clients: append, find, list.     *)
(*   ProgSpec   the progress display of one submission.                    *)
(*   RaceSpec   two processes that run _save_to_history on the same file   *)
(*              at the same time.                                          *)
(*   UiFairSpec the GUI: start_translation, the worker thread              *)
(*              run_translation and process_queue.                         *)
(***************************************************************************)
EXTENDS Integers, Sequences, FiniteSets, TLC

(***************************************************************************)
(* Bounds of the model (not program constants).                            *)
(***************************************************************************)
\* longest target-language / sentence list enumerated entry by entry
MaxListLen == 2
\* largest number of individually chosen failing backend calls
MaxFail == 1
\* last UTC day the clock can reach (days are numbered from 1)
MaxDay == 2
\* longest sentence list a client run is given
MaxSentCount == 3
\* largest batch size a client run is given
MaxBatch == 2
\* most appends to the history ledger in one run
MaxAppends == 2
\* largest limit a listing of the ledger is asked for
MaxLimit == 3

(***************************************************************************)
(* Program constants of validate_input.                                    *)
(***************************************************************************)
LangCodeLen == 2
MaxTargetLanguages == 10
MaxSentences == 100
MaxSentenceLen == 5000

INPUT_BUCKET == "INPUT_BUCKET"
OUTPUT_BUCKET == "OUTPUT_BUCKET"

(***************************************************************************)
(* Values a request can carry.                                             *)
(*                                                                         *)
(* A language entry is [isStr, code, len]: whether the JSON value is a     *)
(* string, its text and its length.  A sentence is [isStr, id, lead, core, *)
(* trail]: `lead` whitespace characters, then `core` characters that       *)
(* start and end with a non-whitespace character, then `trail` whitespace  *)
(* characters; a string of whitespace only has core = 0 and all of its     *)
(* characters in lead.                                                     *)
(***************************************************************************)
Lang(c) == [isStr |-> TRUE, code |-> c, len |-> LangCodeLen]
LangEN == Lang("en")
LangES == Lang("es")
LangFR == Lang("fr")
LangLong == [isStr |-> TRUE, code |-> "english", len |-> 7]
LangNonStr == [isStr |-> FALSE, code |-> "42", len |-> 0]

Str(i, l, c, t) == [isStr |-> TRUE, id |-> i, lead |-> l, core |-> c, trail |-> t]
SentA == Str("a", 0, 1, 0)
SentB == Str("b", 1, 1, 1)
SentBlank == Str("", 2, 0, 0)
SentEmpty == Str("", 0, 0, 0)
SentMax == Str("m", 0, MaxSentenceLen, 0)
SentOver == Str("o", 0, MaxSentenceLen + 1, 0)
SentNonStr == [isStr |-> FALSE, id |-> "7", lead |-> 0, core |-> 0, trail |-> 0]

\* len(sentence)
StrLen(s) == s.lead + s.core + s.trail
\* sentence.strip()
Strip(s) == [s EXCEPT !.lead = 0, !.trail = 0]

\* a JSON list value or a value that is not a list
ListVal(items) == [isList |-> TRUE, items |-> items]
NotAList == [isList |-> FALSE, items |-> << >>]

SeqsUpTo(S, n) == UNION {[1..k -> S] : k \in 0..n}
Repeat(x, n) == [i \in 1..n |-> x]

TenCodes == <<"l0", "l1", "l2", "l3", "l4", "l5", "l6", "l7", "l8", "l9">>
TenLangs == [i \in 1..MaxTargetLanguages |-> Lang(TenCodes[i])]

\* the values of the three fields: every list of up to MaxListLen entries
\* over a set of valid and invalid entries, the lists at and above the
\* limits of the validator, and values that are not lists
SourceValues == {LangEN, LangLong, LangNonStr}
TargetEntries == {LangES, LangFR, LangLong}
TargetValues ==
    {NotAList}
    \cup {ListVal(s) : s \in SeqsUpTo(TargetEntries, MaxListLen)}
    \cup {ListVal(<<LangNonStr>>), ListVal(<<LangES, LangNonStr>>)}
    \cup {ListVal(TenLangs), ListVal(Append(TenLangs, LangES))}
SentenceEntries == {SentA, SentB, SentBlank, SentOver}
SentenceValues ==
    {NotAList}
    \cup {ListVal(s) : s \in SeqsUpTo(SentenceEntries, MaxListLen)}
    \cup {ListVal(<<SentEmpty>>), ListVal(<<SentNonStr>>), ListVal(<<SentMax>>),
          ListVal(<<SentA, SentNonStr>>)}
    \cup {ListVal(Repeat(SentA, MaxSentences)), ListVal(Repeat(SentA, MaxSentences + 1))}
    \cup {ListVal([i \in 1..MaxSentences |->
                      IF i = MaxSentences THEN SentMax ELSE SentA])}

RequiredFields == <<"source_language", "target_languages", "sentences">>

\* the event bodies the handler is invoked with: a JSON object with any
\* subset of the three fields, a body that is not valid JSON, or a null body
ObjectBodies ==
    {[kind |-> "object", fields |-> f,
      source_language |-> s, target_languages |-> t, sentences |-> x] :
        f \in SUBSET {"source_language", "target_languages", "sentences"},
        s \in SourceValues, t \in TargetValues, x \in SentenceValues}
NormalBody(b) ==
    /\ ("source_language" \notin b.fields => b.source_language = LangEN)
    /\ ("target_languages" \notin b.fields => b.target_languages = NotAList)
    /\ ("sentences" \notin b.fields => b.sentences = NotAList)
OtherBody(k) ==
    [kind |-> k, fields |-> {},
     source_language |-> LangEN, target_languages |-> NotAList, sentences |-> NotAList]
Bodies ==
    {b \in ObjectBodies : NormalBody(b)} \cup {OtherBody("invalid_json"), OtherBody("null")}

(***************************************************************************)
(* State of the server.                                                    *)
(***************************************************************************)
VARIABLES
    event,           \* the body lambda_handler was invoked with
    pc,              \* position of lambda_handler
    now,             \* current UTC day (datetime.now(timezone.utc))
    translation_id,  \* uuid generated for the job, NoId before
    input_key,       \* key of the input audit document
    failed,          \* backend calls <<k, i>> that raised in this run
    translations,    \* mapping built by process_translations
    input_bucket,    \* objects of INPUT_BUCKET
    output_bucket,   \* objects of OUTPUT_BUCKET
    input_put,       \* outcome of the put of the audit: "none", "ok", "raised"
    output_put,      \* outcome of the put of the result: "none", "ok", "raised"
    response         \* what lambda_handler returned, NoResponse before

serverVars == <<event, pc, now, translation_id, input_key, failed,
                translations, input_bucket, output_bucket, input_put,
                output_put, response>>

(***************************************************************************)
(* State of the result pollers.                                            *)
(***************************************************************************)
VARIABLES
    poller,       \* which loop runs: an element of Pollers
    p_pc,         \* position in the loop: "idle", "loop", "read", "sleep", "done"
    p_attempt,    \* iterations of the for loop started so far
    p_reads,      \* get_object calls made so far
    p_sleeps,     \* time.sleep(1) calls made so far
    p_seen,       \* the outcomes the reads had so far
    p_cancelled,  \* cancel_flag['cancelled'] of the retry dialog
    p_outcome,    \* how polling ended: "none", "found", "timed_out",
                  \* "cancelled", "error"
    p_ready,      \* seconds after the start of polling at which the output
                  \* document holds translations
    p_doc,        \* the translations of the output document once it is ready
    p_result,     \* translations_data as the poller leaves it
    p_status,     \* the last status shown for the job, NoStatus before
    p_view        \* what is shown as the result of the job, NoView before

pollVars == <<poller, p_pc, p_attempt, p_reads, p_sleeps, p_seen,
              p_cancelled, p_outcome, p_ready, p_doc, p_result, p_status,
              p_view>>

(***************************************************************************)
(* State of one run of a command-line client.                              *)
(***************************************************************************)
VARIABLES
    cli,          \* "interactive" (interactive_cli.py) or "file" (translation_cli.py)
    c_sentences,  \* the sentences to translate
    c_targets,    \* target_langs
    c_batch,      \* batch_size
    c_s3,         \* whether self.s3_client is set
    c_pc,         \* position of the run
    c_mode,       \* "batches" inside the chunk loop, "single" for one request
    c_i,          \* loop variable i of the chunk loop
    c_chunks,     \* the chunks submitted so far, in order
    c_doc,        \* translations the server computed for the chunk in flight
    c_results,    \* result['translations'] of the calls of translate so far
    c_all,        \* all_translations
    c_sleeps      \* time.sleep(1) calls made between chunks so far

batchVars == <<cli, c_sentences, c_targets, c_batch, c_s3, c_pc, c_mode, c_i,
               c_chunks, c_doc, c_results, c_all, c_sleeps>>

(***************************************************************************)
(* State of the history ledger (~/.translation-cli-history.json).          *)
(***************************************************************************)
VARIABLES
    h_client,  \* the program working on the ledger: "interactive", "tool", "gui"
    h_file,    \* the history file: missing, unparsable, or a JSON value
    h_all,     \* every record the ledger was given, oldest first
    h_count,   \* the appends made in this run
    h_op,      \* the last operation: "none", "append", "find", "list"
    h_arg,     \* the argument of the last find (a prefix) or list (a limit)
    h_out,     \* the records the last operation returned or showed, in order
    h_error    \* whether an operation raised

histVars == <<h_client, h_file, h_all, h_count, h_op, h_arg, h_out, h_error>>

(***************************************************************************)
(* State of the progress display of one submission.                        *)
(***************************************************************************)
VARIABLES
    g_client,    \* "cli" (both command-line clients) or "gui"
    g_pc,        \* position of the submitting thread
    g_outcome,   \* how requests.post ended, "none" before
    g_anim,      \* position of the animation thread
    g_i,         \* the animation's last value: elapsed share (cli), i (gui)
    g_attempt,   \* iterations of the GUI poll loop that reported progress
    g_progress,  \* the progress value shown
    g_writer     \* the thread that wrote g_progress last

progVars == <<g_client, g_pc, g_outcome, g_anim, g_i, g_attempt, g_progress,
              g_writer>>

(***************************************************************************)
(* State of two processes that append to the same history file.            *)
(***************************************************************************)
VARIABLES
    r_pc,       \* position of each process in _save_to_history
    r_history,  \* the local variable `history` of each process
    r_record,   \* the record each process appends
    r_file,     \* the history file both processes use
    r_len,      \* the length of the text in the history file
    r_last      \* the process whose json.dump finished last, "none" before

raceVars == <<r_pc, r_history, r_record, r_file, r_len, r_last>>

(***************************************************************************)
(* State of the GUI while a translation runs.                              *)
(***************************************************************************)
VARIABLES
    u_pc,       \* the worker thread run_translation: "idle", "running", "finished"
    u_outcome,  \* how the run of the worker goes, "none" before the first run
    u_sent,     \* messages the worker has put into self.queue in this run
    u_queue,    \* self.queue: the kinds of the messages waiting, oldest first
    u_button,   \* state of translate_btn: "normal" or "disabled"
    u_pump      \* process_queue: "scheduled" (root.after pending) or "dead"

uiVars == <<u_pc, u_outcome, u_sent, u_queue, u_button, u_pump>>

NoId == 0
JobIds == {1, 2}
NoError == "None"

Key(category, day, id, suffix) ==
    [category |-> category, day |-> day, id |-> id, suffix |-> suffix]
NoKey == Key("", 0, NoId, "")
S3Url(bucket, key) == [scheme |-> "s3", bucket |-> bucket, key |-> key]
Location(bucket, key, url) == [bucket |-> bucket, key |-> key, url |-> url]
NoLocation == Location("", NoKey, S3Url("", NoKey))
NoStatus == "none"
NoTranslations == [l \in {} |-> << >>]
\* a result view: what is shown, and the translations shown with it
View(shown, tr) == [shown |-> shown, translations |-> tr]
NoView == View("none", NoTranslations)

(***************************************************************************)
(* validate_input                                                          *)
(***************************************************************************)
\* sentence_check without the length rule
sentence_check_no_length(sentence) ==
    IF ~sentence.isStr \/ StrLen(Strip(sentence)) = 0
    THEN "All sentences must be non-empty strings"
    ELSE NoError

\* the checks of one iteration of the loop over sentences
sentence_check(sentence) ==
    IF ~sentence.isStr \/ StrLen(Strip(sentence)) = 0
    THEN "All sentences must be non-empty strings"
    ELSE IF StrLen(sentence) > MaxSentenceLen
    THEN "Each sentence must be less than 5000 characters"
    ELSE NoError

\* the loop over sentences: it returns at the first sentence that fails a check
SentenceError(items) ==
    LET bad == {i \in 1..Len(items) : sentence_check(items[i]) # NoError}
    IN IF bad = {} THEN NoError
       ELSE sentence_check(items[CHOOSE i \in bad : \A j \in bad : i <= j])

\* validate_input with the target languages checked before the source
validate_input_targets_first(source_language, target_languages, sentences) ==
    IF ~target_languages.isList \/ Len(target_languages.items) = 0
    THEN "Target languages must be a non-empty list"
    ELSE IF Len(target_languages.items) > MaxTargetLanguages
    THEN "Maximum 10 target languages allowed"
    ELSE IF \E k \in 1..Len(target_languages.items) :
                ~target_languages.items[k].isStr
                \/ target_languages.items[k].len # LangCodeLen
    THEN "All target languages must be 2-character language codes"
    ELSE IF ~source_language.isStr \/ source_language.len # LangCodeLen
    THEN "Source language must be a 2-character language code"
    ELSE IF ~sentences.isList \/ Len(sentences.items) = 0
    THEN "Sentences must be a non-empty list"
    ELSE IF Len(sentences.items) > MaxSentences
    THEN "Maximum 100 sentences allowed per request"
    ELSE SentenceError(sentences.items)

\* validate_input with the two list limits read as exclusive bounds
validate_input_exclusive(source_language, target_languages, sentences) ==
    IF ~source_language.isStr \/ source_language.len # LangCodeLen
    THEN "Source language must be a 2-character language code"
    ELSE IF ~target_languages.isList \/ Len(target_languages.items) = 0
    THEN "Target languages must be a non-empty list"
    ELSE IF Len(target_languages.items) >= MaxTargetLanguages
    THEN "Maximum 10 target languages allowed"
    ELSE IF \E k \in 1..Len(target_languages.items) :
                ~target_languages.items[k].isStr
                \/ target_languages.items[k].len # LangCodeLen
    THEN "All target languages must be 2-character language codes"
    ELSE IF ~sentences.isList \/ Len(sentences.items) = 0
    THEN "Sentences must be a non-empty list"
    ELSE IF Len(sentences.items) >= MaxSentences
    THEN "Maximum 100 sentences allowed per request"
    ELSE SentenceError(sentences.items)

validate_input(source_language, target_languages, sentences) ==
    IF ~source_language.isStr \/ source_language.len # LangCodeLen
    THEN "Source language must be a 2-character language code"
    ELSE IF ~target_languages.isList \/ Len(target_languages.items) = 0
    THEN "Target languages must be a non-empty list"
    ELSE IF Len(target_languages.items) > MaxTargetLanguages
    THEN "Maximum 10 target languages allowed"
    ELSE IF \E k \in 1..Len(target_languages.items) :
                ~target_languages.items[k].isStr
                \/ target_languages.items[k].len # LangCodeLen
    THEN "All target languages must be 2-character language codes"
    ELSE IF ~sentences.isList \/ Len(sentences.items) = 0
    THEN "Sentences must be a non-empty list"
    ELSE IF Len(sentences.items) > MaxSentences
    THEN "Maximum 100 sentences allowed per request"
    ELSE SentenceError(sentences.items)

(***************************************************************************)
(* create_error_response and the success response                          *)
(***************************************************************************)
NoSummary == [source_language |-> "", target_languages |-> << >>,
              sentences_processed |-> 0, translations_generated |-> 0]
NoResponse == [statusCode |-> 0, success |-> FALSE, error_code |-> 0,
               message |-> "", translation_id |-> NoId,
               input_location |-> NoLocation, output_location |-> NoLocation,
               summary |-> NoSummary, timestamp |-> 0]

create_error_response(status_code, message) ==
    [NoResponse EXCEPT !.statusCode = status_code, !.success = FALSE,
                       !.error_code = status_code, !.message = message]

RECURSIVE SumLens(_, _)
\* sum(len(translations[lang]) for lang in translations)
SumLens(tr, langs) ==
    IF langs = {} THEN 0
    ELSE LET l == CHOOSE x \in langs : TRUE
         IN Len(tr[l]) + SumLens(tr, langs \ {l})

Codes(items) == [k \in 1..Len(items) |-> items[k].code]

success_response(id, ikey, okey, s3_url, body, tr, ts) ==
    [NoResponse EXCEPT
        !.statusCode = 200, !.success = TRUE, !.translation_id = id,
        !.input_location = Location(INPUT_BUCKET, ikey, S3Url(INPUT_BUCKET, ikey)),
        !.output_location = Location(OUTPUT_BUCKET, okey, s3_url),
        !.summary = [source_language |-> body.source_language.code,
                     target_languages |-> Codes(body.target_languages.items),
                     sentences_processed |-> Len(body.sentences.items),
                     translations_generated |-> SumLens(tr, DOMAIN tr)],
        !.timestamp = ts]

(***************************************************************************)
(* process_translations                                                    *)
(***************************************************************************)
\* response['TranslatedText'] of translate_text(Text, Source, Target)
TranslatedText(text, source, target) ==
    [kind |-> "translated", text |-> text, source |-> source, target |-> target]
\* f"[Translation Error: {str(e)}]"
ErrorMarker ==
    [kind |-> "error", text |-> SentEmpty, source |-> "", target |-> ""]

\* one iteration of the inner loop: the entry appended for a sentence, the
\* translated text or, when the backend call raised, the marker
translate_one(source, target, sentence, raised) ==
    IF raised
    THEN ErrorMarker
    ELSE TranslatedText(Strip(sentence), source, target)

\* translate_sentences leaving the loop at the first call that raises
translate_sentences_abort(source, targets, k, sentences, F) ==
    LET bad == {i \in 1..Len(sentences) : <<k, i>> \in F}
        n == IF bad = {} THEN Len(sentences)
             ELSE CHOOSE i \in bad : \A j \in bad : i <= j
    IN [i \in 1..n |->
          translate_one(source, targets[k].code, sentences[i], <<k, i>> \in F)]

\* the inner loop over enumerate(sentences) for the k-th target language:
\* one entry is appended per sentence, in order
translate_sentences(source, targets, k, sentences, F) ==
    [i \in 1..Len(sentences) |->
        translate_one(source, targets[k].code, sentences[i], <<k, i>> \in F)]

\* translations[target_lang] = [] followed by the inner loop
set_language(tr, lang, seq) ==
    [l \in DOMAIN tr \cup {lang} |-> IF l = lang THEN seq ELSE tr[l]]

RECURSIVE translate_languages(_, _, _, _, _)
\* the outer loop over the first k target languages
translate_languages(source, targets, k, sentences, F) ==
    IF k = 0 THEN NoTranslations
    ELSE set_language(translate_languages(source, targets, k - 1, sentences, F),
                      targets[k].code,
                      translate_sentences(source, targets, k, sentences, F))

process_translations(source_language, target_languages, sentences, F) ==
    translate_languages(source_language, target_languages,
                        Len(target_languages), sentences, F)

(***************************************************************************)
(* Storage                                                                 *)
(***************************************************************************)
\* s3_client.put_object: the object stored under the key is replaced
put_object(bucket, key, doc) ==
    {o \in bucket : o.key # key} \cup {[key |-> key, doc |-> doc]}

input_document(id, body, ts) ==
    [translation_id |-> id, timestamp |-> ts, request_data |-> body]

\* the output document built before process_translations has run
output_document_before_translation(id, body, ikey, tr, ts) ==
    [translation_id |-> id,
     source_language |-> body.source_language.code,
     timestamp |-> ts,
     total_sentences |-> Len(body.sentences.items),
     target_languages |-> Codes(body.target_languages.items),
     input_location |-> S3Url(INPUT_BUCKET, ikey),
     translations |-> NoTranslations]

output_document(id, body, ikey, tr, ts) ==
    [translation_id |-> id,
     source_language |-> body.source_language.code,
     timestamp |-> ts,
     total_sentences |-> Len(body.sentences.items),
     target_languages |-> Codes(body.target_languages.items),
     input_location |-> S3Url(INPUT_BUCKET, ikey),
     translations |-> tr]

(***************************************************************************)
(* The backend calls that may raise in one run.  Every call <<k, i>> (k-th *)
(* target language, i-th sentence) can raise; the model chooses either all *)
(* calls, or up to MaxFail calls among those of the first MaxListLen       *)
(* languages and sentences.                                                *)
(***************************************************************************)
Calls(targets, sentences) == (1..Len(targets)) \X (1..Len(sentences))

Prefix(n) == {i \in 1..n : i <= MaxListLen}

RECURSIVE SubsetsUpTo(_, _)
SubsetsUpTo(S, n) ==
    IF n = 0 THEN {{}}
    ELSE LET P == SubsetsUpTo(S, n - 1)
         IN P \cup {p \cup {c} : p \in P, c \in S}

FailChoices(targets, sentences) ==
    SubsetsUpTo(Prefix(Len(targets)) \X Prefix(Len(sentences)), MaxFail)
    \cup {Calls(targets, sentences)}

(***************************************************************************)
(* lambda_handler                                                          *)
(***************************************************************************)
RECURSIVE MissingField(_, _)
\* the loop over required_fields: the first field that is not in the body
MissingField(body, n) ==
    IF n > Len(RequiredFields) THEN NoError
    ELSE IF RequiredFields[n] \notin body.fields THEN RequiredFields[n]
    ELSE MissingField(body, n + 1)

MissingMessage(field) ==
    CASE field = "source_language" -> "Missing required field: source_language"
      [] field = "target_languages" -> "Missing required field: target_languages"
      [] field = "sentences" -> "Missing required field: sentences"

\* the answer of the parsing and validating part of lambda_handler, or
\* NoResponse when the request is accepted
reject_response(body) ==
    IF body.kind = "invalid_json"
    THEN create_error_response(400, "Invalid JSON in request body")
    ELSE IF body.kind = "null"
    THEN create_error_response(500, "Internal server error")
    ELSE IF MissingField(body, 1) # NoError
    THEN create_error_response(400, MissingMessage(MissingField(body, 1)))
    ELSE IF validate_input(body.source_language, body.target_languages,
                           body.sentences) # NoError
    THEN create_error_response(400,
             validate_input(body.source_language, body.target_languages,
                            body.sentences))
    ELSE NoResponse

PollIdle ==
    /\ poller = "cli"
    /\ p_pc = "idle"
    /\ p_attempt = 0
    /\ p_reads = 0
    /\ p_sleeps = 0
    /\ p_seen = {}
    /\ p_cancelled = FALSE
    /\ p_outcome = "none"
    /\ p_ready = 0
    /\ p_doc = NoTranslations
    /\ p_result = NoTranslations
    /\ p_status = NoStatus
    /\ p_view = NoView

\* a history file with a given kind of content
File(kind, value) == [kind |-> kind, value |-> value]
MissingFile == File("missing", ListVal(<< >>))

HistIdle ==
    /\ h_client = "interactive"
    /\ h_file = MissingFile
    /\ h_all = << >>
    /\ h_count = 0
    /\ h_op = "none"
    /\ h_arg = << >>
    /\ h_out = << >>
    /\ h_error = FALSE

ProgIdle ==
    /\ g_client = "cli"
    /\ g_pc = "idle"
    /\ g_outcome = "none"
    /\ g_anim = "idle"
    /\ g_i = 0
    /\ g_attempt = 0
    /\ g_progress = 0
    /\ g_writer = "none"

Procs == {"p1", "p2"}

RaceIdle ==
    /\ r_pc = [p \in Procs |-> "idle"]
    /\ r_history = [p \in Procs |-> << >>]
    /\ r_record = [p \in Procs |-> << >>]
    /\ r_file = MissingFile
    /\ r_len = 0
    /\ r_last = "none"

\* the GUI after __init__: nothing runs, the button is enabled and
\* process_queue has scheduled itself
UiIdle ==
    /\ u_pc = "idle"
    /\ u_outcome = "none"
    /\ u_sent = 0
    /\ u_queue = << >>
    /\ u_button = "normal"
    /\ u_pump = "scheduled"

BatchIdle ==
    /\ cli = "interactive"
    /\ c_sentences = << >>
    /\ c_targets = << >>
    /\ c_batch = 0
    /\ c_s3 = FALSE
    /\ c_pc = "idle"
    /\ c_mode = "none"
    /\ c_i = 0
    /\ c_chunks = << >>
    /\ c_doc = NoTranslations
    /\ c_results = << >>
    /\ c_all = NoTranslations
    /\ c_sleeps = 0

Init ==
    /\ PollIdle
    /\ BatchIdle
    /\ HistIdle
    /\ ProgIdle
    /\ RaceIdle
    /\ UiIdle
    /\ event \in Bodies
    /\ pc = "start"
    /\ now = 1
    /\ translation_id = NoId
    /\ input_key = NoKey
    /\ failed = {}
    /\ translations = NoTranslations
    /\ input_bucket = {}
    /\ output_bucket = {}
    /\ input_put = "none"
    /\ output_put = "none"
    /\ response = NoResponse

\* lambda_handler generating the job id before it parses and validates
ParseAndValidate_id_first ==
    /\ pc = "start"
    /\ \E id \in JobIds : translation_id' = id
    /\ IF reject_response(event) # NoResponse
       THEN /\ response' = reject_response(event)
            /\ pc' = "done"
       ELSE /\ pc' = "store_input"
            /\ UNCHANGED response
    /\ UNCHANGED <<event, now, input_key, failed, translations,
                   input_bucket, output_bucket, input_put, output_put>>
    /\ UNCHANGED <<pollVars, batchVars, histVars, progVars, raceVars, uiVars>>

\* lines 27-59: parse the body, check the required fields, validate, and
\* generate the job id; a rejected request is answered at once
ParseAndValidate ==
    /\ pc = "start"
    /\ IF reject_response(event) # NoResponse
       THEN /\ response' = reject_response(event)
            /\ pc' = "done"
            /\ UNCHANGED translation_id
       ELSE /\ \E id \in JobIds : translation_id' = id
            /\ pc' = "store_input"
            /\ UNCHANGED response
    /\ UNCHANGED <<event, now, input_key, failed, translations,
                   input_bucket, output_bucket, input_put, output_put>>
    /\ UNCHANGED <<pollVars, batchVars, histVars, progVars, raceVars, uiVars>>

\* store_input_request: the put may raise; the except clause logs the
\* exception and returns "", so the bucket is left as it was
store_input_request(bucket, key, doc, raised) ==
    IF raised THEN bucket ELSE put_object(bucket, key, doc)

\* store_input_request letting the exception of the put escape
input_failure_response_raise(raised) ==
    IF raised THEN create_error_response(500, "Internal server error")
    ELSE NoResponse

\* what lambda_handler answers because of store_input_request: nothing, the
\* call never raises (an exception leaving it would reach the handler's
\* except clause and be answered with 500)
input_failure_response(raised) == NoResponse

\* lines 61-63: derive the input key from the clock and write the audit
StoreInput ==
    /\ pc = "store_input"
    /\ LET key == Key("requests", now, translation_id, "_request")
       IN /\ input_key' = key
          /\ \E raised \in BOOLEAN :
                /\ input_put' = IF raised THEN "raised" ELSE "ok"
                /\ input_bucket' = store_input_request(input_bucket, key,
                                    input_document(translation_id, event, now),
                                    raised)
                /\ IF input_failure_response(raised) # NoResponse
                   THEN /\ response' = input_failure_response(raised)
                        /\ pc' = "done"
                   ELSE /\ pc' = "translate"
                        /\ UNCHANGED response
    /\ UNCHANGED <<event, now, translation_id, failed, translations,
                   output_bucket, output_put>>
    /\ UNCHANGED <<pollVars, batchVars, histVars, progVars, raceVars, uiVars>>

\* lines 65-71: translate every (sentence, language) pair
Translate ==
    /\ pc = "translate"
    /\ \E F \in FailChoices(event.target_languages.items, event.sentences.items) :
          /\ failed' = F
          /\ translations' = process_translations(event.source_language.code,
                                 event.target_languages.items,
                                 event.sentences.items, F)
    /\ pc' = "store_result"
    /\ UNCHANGED <<event, now, translation_id, input_key,
                   input_bucket, output_bucket, input_put, output_put, response>>
    /\ UNCHANGED <<pollVars, batchVars, histVars, progVars, raceVars, uiVars>>

\* store_result_in_s3 swallowing the exception of the put
store_result_response_swallow(raised, ok_response) == ok_response

\* what lambda_handler returns after store_result_in_s3: the success
\* response, or the 500 of the except clause when the put raised
store_result_response(raised, ok_response) ==
    IF raised
    THEN create_error_response(500, "Internal server error")
    ELSE ok_response

\* lines 73-127: build the output document, write it, answer
StoreResult ==
    /\ pc = "store_result"
    /\ LET key == Key("translations", now, translation_id, "")
           doc == output_document(translation_id, event, input_key,
                                  translations, now)
       IN \E raised \in BOOLEAN :
            /\ output_put' = IF raised THEN "raised" ELSE "ok"
            /\ output_bucket' = IF raised THEN output_bucket
                                ELSE put_object(output_bucket, key, doc)
            /\ response' = store_result_response(raised,
                              success_response(translation_id, input_key, key,
                                  S3Url(OUTPUT_BUCKET, key), event,
                                  translations, now))
    /\ pc' = "done"
    /\ UNCHANGED <<event, now, translation_id, input_key, failed,
                   translations, input_bucket, input_put>>
    /\ UNCHANGED <<pollVars, batchVars, histVars, progVars, raceVars, uiVars>>

\* the UTC date changes while the handler runs, after the input key was
\* derived and before the output key is
Tick ==
    /\ pc = "translate"
    /\ now < MaxDay
    /\ now' = now + 1
    /\ UNCHANGED <<event, pc, translation_id, input_key, failed,
                   translations, input_bucket, output_bucket, input_put,
                output_put, response>>
    /\ UNCHANGED <<pollVars, batchVars, histVars, progVars, raceVars, uiVars>>

Next == ParseAndValidate \/ StoreInput \/ Translate \/ StoreResult \/ Tick

vars == <<serverVars, pollVars, batchVars, histVars, progVars, raceVars, uiVars>>

Spec == Init /\ [][Next]_vars

(***************************************************************************)
(* The result pollers                                                      *)
(***************************************************************************)
\* range(30) of InteractiveTranslationCLI.translate
CliPollAttempts == 30
\* max_attempts of TranslationGUI.run_translation
GuiPollAttempts == 60
\* max_attempts of retry_fetch_translations when the user answers yes
RetryPollAttempts == 120
\* max_attempts of retry_fetch_translations when the user answers no
RetrySingleAttempt == 1

Pollers == {"cli", "gui_submit", "gui_retry_long", "gui_retry_single"}
IsRetry(kind) == kind \in {"gui_retry_long", "gui_retry_single"}

max_attempts(kind) ==
    CASE kind = "cli" -> CliPollAttempts
      [] kind = "gui_submit" -> GuiPollAttempts
      [] kind = "gui_retry_long" -> RetryPollAttempts
      [] kind = "gui_retry_single" -> RetrySingleAttempt

\* what a read of the output location can yield: the key does not exist,
\* a document without translations, a document with translations, or any
\* other failure (access denied, transport failure, a body that is not JSON)
ReadOutcomes == {"no_such_key", "empty", "found", "other_error"}

ServerIdle ==
    /\ event = OtherBody("null")
    /\ pc = "idle"
    /\ now = 1
    /\ translation_id = NoId
    /\ input_key = NoKey
    /\ failed = {}
    /\ translations = NoTranslations
    /\ input_bucket = {}
    /\ output_bucket = {}
    /\ input_put = "none"
    /\ output_put = "none"
    /\ response = NoResponse

\* a submission was answered without translations and polling begins
PollStart(kind) ==
    /\ poller = kind
    /\ p_pc = "loop"
    /\ p_attempt = 0
    /\ p_reads = 0
    /\ p_sleeps = 0
    /\ p_seen = {}
    /\ p_cancelled = FALSE
    /\ p_outcome = "none"

\* the example of the specification: the document appears after 4 seconds
ReadyAfter == 4
\* the document does not get its translations within any poll budget
Never == RetryPollAttempts + 1
ReadyTimes == {0, ReadyAfter, Never}
\* two output documents: one sentence translated, one sentence failed
PollDocs == {process_translations("en", <<LangES>>, <<SentA>>, F) :
                F \in {{}, {<<1, 1>>}}}

PollInit ==
    /\ ServerIdle
    /\ BatchIdle
    /\ HistIdle
    /\ ProgIdle
    /\ RaceIdle
    /\ UiIdle
    /\ \E kind \in Pollers : PollStart(kind)
    /\ p_ready \in ReadyTimes
    /\ p_doc \in PollDocs
    /\ p_result = NoTranslations
    /\ p_status = NoStatus
    /\ p_view = NoView

\* for attempt in range(n): one more iteration than the range has
range_exhausted_late(attempt, n) == attempt > n

\* for attempt in range(n): the loop is left once n iterations were started
range_exhausted(attempt, n) == attempt >= n

\* the top of the for loop: leave the loop when the range is exhausted (the
\* outcome is then decided by found / cancel_flag after the loop), break
\* when the retry dialog was cancelled, else start the next iteration
PollLoop ==
    /\ p_pc = "loop"
    /\ IF range_exhausted(p_attempt, max_attempts(poller))
       THEN /\ p_pc' = "done"
            /\ p_outcome' = IF p_cancelled THEN "cancelled" ELSE "timed_out"
            /\ UNCHANGED p_attempt
       ELSE IF IsRetry(poller) /\ p_cancelled
       THEN /\ p_pc' = "done"
            /\ p_outcome' = "cancelled"
            /\ UNCHANGED p_attempt
       ELSE /\ p_pc' = "read"
            /\ p_attempt' = p_attempt + 1
            /\ UNCHANGED p_outcome
    /\ UNCHANGED <<poller, p_reads, p_sleeps, p_seen, p_cancelled, p_ready,
                   p_doc, p_result, p_status, p_view>>
    /\ UNCHANGED <<serverVars, batchVars, histVars, progVars, raceVars, uiVars>>

\* cancel_polling: the Cancel button of the retry dialog is served by
\* progress_window.update(), which is called once before the loop and by
\* every iteration before its read
PollCancel ==
    /\ (p_pc = "read" \/ (p_pc = "loop" /\ p_attempt = 0))
    /\ IsRetry(poller)
    /\ ~p_cancelled
    /\ p_cancelled' = TRUE
    /\ UNCHANGED <<poller, p_pc, p_attempt, p_reads, p_sleeps, p_seen,
                   p_outcome, p_ready, p_doc, p_result, p_status, p_view>>
    /\ UNCHANGED <<serverVars, batchVars, histVars, progVars, raceVars, uiVars>>

\* the break of the loop is missing: a non-empty document is treated like
\* an empty one
after_read_keep_polling(kind, o, cancelled) ==
    IF o = "other_error" /\ kind = "cli" THEN "error"
    ELSE IF o = "no_such_key" /\ IsRetry(kind) /\ cancelled THEN "error"
    ELSE "none"

\* where the iteration goes after a read with outcome o: "found" breaks out
\* of the loop; the interactive CLI catches NoSuchKey only, so any other
\* failure leaves translate; the GUI loops catch every exception; in the
\* retry dialog the except clause of NoSuchKey updates status_label, which
\* raises once cancel_polling has destroyed the window
after_read(kind, o, cancelled) ==
    IF o = "found" THEN "found"
    ELSE IF o = "other_error" /\ kind = "cli" THEN "error"
    ELSE IF o = "no_such_key" /\ IsRetry(kind) /\ cancelled THEN "error"
    ELSE "none"

\* the outcomes a read can have after `sleeps` waits of one second when the
\* document is ready after `ready` seconds: the reads themselves take time,
\* less than a second in total, so the read after ready - 1 waits may or
\* may not see the translations; a failure can happen at any time
possible_outcomes(sleeps, ready) ==
    {"other_error"}
      \cup (IF sleeps >= ready - 1 THEN {"found"} ELSE {})
      \cup (IF sleeps < ready THEN {"no_such_key", "empty"} ELSE {})

\* s3_client.get_object and the handling of its result
PollRead ==
    /\ p_pc = "read"
    /\ \E o \in possible_outcomes(p_sleeps, p_ready) :
          /\ p_seen' = p_seen \cup {o}
          /\ p_result' = IF o = "found" THEN p_doc ELSE p_result
          /\ p_outcome' = after_read(poller, o, p_cancelled)
          /\ p_pc' = IF after_read(poller, o, p_cancelled) # "none" THEN "done"
                     ELSE IF max_attempts(poller) > 1 THEN "sleep"
                     ELSE "loop"
    /\ p_reads' = p_reads + 1
    /\ UNCHANGED <<poller, p_attempt, p_sleeps, p_cancelled, p_ready, p_doc,
                   p_status, p_view>>
    /\ UNCHANGED <<serverVars, batchVars, histVars, progVars, raceVars, uiVars>>

\* time.sleep(1) at the end of the iteration
PollSleep ==
    /\ p_pc = "sleep"
    /\ p_sleeps' = p_sleeps + 1
    /\ p_pc' = "loop"
    /\ UNCHANGED <<poller, p_attempt, p_reads, p_seen, p_cancelled, p_outcome,
                   p_ready, p_doc, p_result, p_status, p_view>>
    /\ UNCHANGED <<serverVars, batchVars, histVars, progVars, raceVars, uiVars>>

\* the body display_results would show if it printed the header only
display_results_header_only(result) == View("TRANSLATION RESULTS", NoTranslations)

\* TranslationGUI.display_results: the notice 'No translations found in
\* response ... may still be processing' when the translations are empty,
\* the translations otherwise
display_results(result) ==
    IF result = NoTranslations
    THEN View("No translations found in response", NoTranslations)
    ELSE View("TRANSLATION RESULTS", result)

\* _display_translations_terminal for the sentence and the language of the
\* polled document: the translation, or 'Translation not available' when
\* the normalised list of the language has no entry for the sentence
display_translations_terminal(result) ==
    IF "es" \in DOMAIN result /\ Len(result["es"]) >= 1
    THEN View("TRANSLATION RESULTS", result)
    ELSE View("Translation not available", NoTranslations)

\* what the user is left with when a poll ended: the last status and the
\* result view.  The CLI printed 'Translation job started' before polling
\* and prints the result; an exception or sys.exit(1) leaves no result.
\* run_translation queues 'Translation completed' and the result after the
\* loop, however it ended.  retry_fetch_translations sets a status per
\* outcome and redisplays the result only when it was found.
presentation(kind, outcome, result) ==
    CASE kind = "cli" ->
           IF outcome = "error"
           THEN [status |-> "exit", view |-> NoView]
           ELSE [status |-> "Translation job started",
                 view |-> display_translations_terminal(result)]
      [] kind = "gui_submit" ->
           IF outcome = "error"
           THEN [status |-> "Translation failed", view |-> NoView]
           ELSE [status |-> "Translation completed",
                 view |-> display_results(result)]
      [] OTHER ->
           CASE outcome = "found" ->
                  [status |-> "Translations retrieved from S3!",
                   view |-> display_results(result)]
             [] outcome = "cancelled" ->
                  [status |-> "Polling cancelled",
                   view |-> display_results(NoTranslations)]
             [] outcome = "error" ->
                  [status |-> "S3 fetch failed",
                   view |-> display_results(NoTranslations)]
             [] OTHER ->
                  [status |-> "Translations not ready yet",
                   view |-> display_results(NoTranslations)]

\* the code after the loop: the outcome is presented to the user
PollPresent ==
    /\ p_pc = "done"
    /\ p_status = NoStatus
    /\ p_status' = presentation(poller, p_outcome, p_result).status
    /\ p_view' = presentation(poller, p_outcome, p_result).view
    /\ UNCHANGED <<poller, p_pc, p_attempt, p_reads, p_sleeps, p_seen,
                   p_cancelled, p_outcome, p_ready, p_doc, p_result>>
    /\ UNCHANGED <<serverVars, batchVars, histVars, progVars, raceVars, uiVars>>

PollNext == PollLoop \/ PollCancel \/ PollRead \/ PollSleep \/ PollPresent

PollSpec == PollInit /\ [][PollNext]_vars

\* C10 as stated: when every read yields 'not found' or a document without
\* translations, the poller makes exactly max_attempts reads (30, 60, 120
\* or 1) and then ends timed out, never after fewer reads and never after
\* more.
C10_TimeoutWheneverNothingFound ==
    /\ p_reads <= max_attempts(poller)
    /\ (p_pc = "done" /\ p_seen \subseteq {"no_such_key", "empty"} =>
           /\ p_outcome = "timed_out"
           /\ p_reads = max_attempts(poller))

\* C10 amended: when every read yields 'not found' or a document without
\* translations and the poll is not cancelled (the retry dialog has a
\* Cancel button), the poller makes exactly max_attempts reads (30, 60,
\* 120 or 1) and ends timed out; no poller ever ends timed out after fewer
\* reads and none reads more often than max_attempts.
C10_TimeoutAfterExactBudget ==
    /\ p_reads <= max_attempts(poller)
    /\ (p_outcome = "timed_out" => p_pc = "done" /\ p_reads = max_attempts(poller))
    /\ (p_pc = "done" /\ p_seen \subseteq {"no_such_key", "empty"} /\ ~p_cancelled =>
           /\ p_outcome = "timed_out"
           /\ p_reads = max_attempts(poller))
    /\ (p_pc # "done" /\ p_seen \subseteq {"no_such_key", "empty"} /\ ~p_cancelled =>
           p_outcome = "none")

C10_Witness ==
    /\ poller = "gui_retry_long"
    /\ p_pc = "done"
    /\ p_outcome = "timed_out"
    /\ p_seen = {"no_such_key", "empty"}
    /\ p_reads = RetryPollAttempts

\* the state part of C11
C11_FoundState ==
    /\ (p_outcome = "found" <=> "found" \in p_seen)
    /\ ("found" \in p_seen =>
           /\ p_pc = "done"
           /\ p_result = p_doc
           /\ p_sleeps = p_reads - 1
           /\ p_sleeps >= p_ready - 1)
    /\ ("found" \notin p_seen => p_result = NoTranslations)
    /\ (p_outcome = "found" /\ p_ready = ReadyAfter
          /\ "other_error" \notin p_seen => p_reads \in {4, 5})

\* C11: the poller returns at the first read that yields a document with
\* translations: no result is reported before such a read, that read is
\* followed by no further read and no further wait, the translations
\* returned are those of the document, and with waits of one second a
\* document that appears after 4 seconds is returned by the 4th or 5th
\* read.
C11_ReturnsAtFirstNonEmptyRead ==
    /\ []C11_FoundState
    /\ [][p_outcome = "found" =>
             /\ p_reads' = p_reads
             /\ p_sleeps' = p_sleeps
             /\ p_result' = p_result
             /\ p_outcome' = "found"]_vars

C11_Witness ==
    /\ poller = "gui_submit"
    /\ p_outcome = "found"
    /\ p_ready = ReadyAfter
    /\ p_reads = 5
    /\ p_seen = {"no_such_key", "empty", "found"}
    /\ p_result = p_doc

\* C12: a read that fails with anything but 'not found' does not end the
\* poll: the poller does not stop with an error, it goes on to the next
\* attempt and ends only by finding a non-empty document or by using up
\* its attempts.
C12_ReadErrorRetried ==
    "other_error" \in p_seen /\ ~p_cancelled =>
        /\ p_outcome # "error"
        /\ (p_pc = "done" =>
               \/ p_outcome = "found"
               \/ p_outcome = "timed_out" /\ p_reads = max_attempts(poller))

C14_CancelStopsPolling ==
    /\ [](p_cancelled /\ p_pc = "done" => p_outcome = "cancelled")
    /\ [][p_cancelled => p_reads' = p_reads]_vars

(***************************************************************************)
(* The history ledger                                                      *)
(***************************************************************************)
\* `if len(history) > 100: history = history[-100:]`
HistoryCap == 100
\* refresh_history shows history[-50:]
GuiListLimit == 50
\* job ids, shortened to three characters
NewIds == {<<"a", "b", "1">>, <<"a", "b", "2">>, <<"c", "d", "1">>}
\* a history record: the job id and the time it was written
Record(id, n) == [translation_id |-> id, timestamp |-> n]
\* a ledger of n records written earlier
OldLedger(n) ==
    [i \in 1..n |->
        Record(IF i % 2 = 1 THEN <<"a", "b", "1">> ELSE <<"c", "d", "1">>, i)]
LedgerSizes == {0, 1, 2, HistoryCap - 1, HistoryCap}
\* the files a run can find: none, one that json.load rejects, a JSON value
\* that is not a list, or a ledger
InitialFiles ==
    {MissingFile, File("unparsable", ListVal(<< >>)), File("json", NotAList)}
      \cup {File("json", ListVal(OldLedger(n))) : n \in LedgerSizes}
\* the ids and prefixes looked up
Prefixes == {<<"a">>, <<"a", "b">>, <<"a", "b", "2">>, <<"c", "d", "1">>, <<"x">>}
Limits == 0..MaxLimit
Arg(prefix, limit) == [prefix |-> prefix, limit |-> limit]
NoArg == Arg(<< >>, 0)

HistInit ==
    /\ ServerIdle
    /\ PollIdle
    /\ BatchIdle
    /\ ProgIdle
    /\ RaceIdle
    /\ UiIdle
    /\ h_client \in {"interactive", "tool", "gui"}
    /\ h_file \in InitialFiles
    /\ h_all = IF h_file.kind = "json" THEN h_file.value.items ELSE << >>
    /\ h_count = 0
    /\ h_op = "none"
    /\ h_arg = NoArg
    /\ h_out = << >>
    /\ h_error = FALSE

\* _load_history / load_history: [] when the file is missing or json.load
\* raises, else whatever json.load returned
load_history(file) ==
    IF file.kind = "json" THEN file.value ELSE ListVal(<< >>)

\* items[-n:] for n >= 1
keep_last(items, n) ==
    IF Len(items) > n THEN SubSeq(items, Len(items) - n + 1, Len(items))
    ELSE items

\* history[-limit:] for any integer limit
slice_last(items, limit) ==
    IF limit > 0 THEN keep_last(items, limit)
    ELSE IF limit = 0 THEN items
    ELSE SubSeq(items, 1 - limit, Len(items))

\* reversed(items)
reversed(items) == [i \in 1..Len(items) |-> items[Len(items) + 1 - i]]

\* str.startswith
startswith(id, prefix) ==
    Len(prefix) <= Len(id) /\ SubSeq(id, 1, Len(prefix)) = prefix

\* _save_to_history / save_to_history: load, append, keep the last 100,
\* write.  history.append raises when the loaded value is not a list; the
\* GUI catches and prints the exception, the command-line clients do not.
save_to_history(record) ==
    /\ LET history == load_history(h_file)
       IN IF history.isList
          THEN /\ h_file' = File("json", ListVal(
                               keep_last(Append(history.items, record),
                                         HistoryCap)))
               /\ UNCHANGED h_error
          ELSE /\ h_error' = (h_error \/ h_client # "gui")
               /\ UNCHANGED h_file
    /\ h_all' = Append(h_all, record)
    /\ h_out' = <<record>>
    /\ h_count' = h_count + 1
    /\ h_op' = "append"
    /\ h_arg' = NoArg
    /\ UNCHANGED h_client

\* one translation is recorded
HistAppend ==
    /\ h_count < MaxAppends
    /\ \E id \in NewIds : save_to_history(Record(id, Len(h_all) + 1))
    /\ UNCHANGED <<serverVars, pollVars, batchVars, progVars, raceVars, uiVars>>

\* the record a scan in ledger order stops at: the first one whose id
\* matches, << >> when none does
first_match(items, key, exact) ==
    LET hits == {i \in 1..Len(items) :
                    IF exact THEN items[i].translation_id = key
                    ELSE startswith(items[i].translation_id, key)}
    IN IF hits = {} THEN << >>
       ELSE <<items[CHOOSE i \in hits : \A j \in hits : i <= j]>>

\* TranslationGUI.lookup_translation: `for record in history` with
\* startswith and break; get_translation_status of the command-line
\* clients: the same scan with ==.  Iterating a value that is not a list
\* of records raises.
HistFind ==
    /\ \E prefix \in Prefixes :
          LET history == load_history(h_file)
          IN /\ h_arg' = Arg(prefix, 0)
             /\ IF history.isList
                THEN /\ h_out' = first_match(history.items, prefix,
                                             h_client # "gui")
                     /\ UNCHANGED h_error
                ELSE /\ h_out' = << >>
                     /\ h_error' = TRUE
    /\ h_op' = "find"
    /\ UNCHANGED <<h_client, h_file, h_all, h_count>>
    /\ UNCHANGED <<serverVars, pollVars, batchVars, progVars, raceVars, uiVars>>

\* list_translations(limit) of the command-line clients: history[-limit:]
\* in ledger order; refresh_history of the GUI: reversed(history[-50:]).
\* Slicing a value that is not a list raises.
HistList ==
    /\ \E limit \in Limits :
          LET history == load_history(h_file)
          IN /\ h_arg' = Arg(<< >>, IF h_client = "gui" THEN GuiListLimit
                                    ELSE limit)
             /\ IF history.isList
                THEN /\ h_out' = IF h_client = "gui"
                                 THEN reversed(slice_last(history.items,
                                                          GuiListLimit))
                                 ELSE slice_last(history.items, limit)
                     /\ UNCHANGED h_error
                ELSE /\ h_out' = << >>
                     /\ h_error' = TRUE
    /\ h_op' = "list"
    /\ UNCHANGED <<h_client, h_file, h_all, h_count>>
    /\ UNCHANGED <<serverVars, pollVars, batchVars, progVars, raceVars, uiVars>>

HistNext == HistAppend \/ HistFind \/ HistList

HistSpec == HistInit /\ [][HistNext]_vars

(***************************************************************************)
(* One run of a command-line client                                        *)
(***************************************************************************)
\* the n distinct sentences "1", ..., "n"
FirstSentences(n) == [i \in 1..n |-> Str(ToString(i), 0, 1, 0)]
\* batch sizes: int(input(...)) and argparse type=int accept any integer
BatchSizes == (-1)..MaxBatch
ClientTargets == {<<"es">>, <<"es", "fr">>, <<"es", "es">>}
\* the backend calls that may raise while the server translates one chunk
ChunkFailChoices == {{}, {<<1, 1>>}}

BatchInit ==
    /\ ServerIdle
    /\ PollIdle
    /\ HistIdle
    /\ ProgIdle
    /\ RaceIdle
    /\ UiIdle
    /\ cli \in {"interactive", "file"}
    /\ c_sentences \in {FirstSentences(n) : n \in 1..MaxSentCount}
    /\ c_targets \in ClientTargets
    /\ c_batch \in BatchSizes
    /\ c_s3 \in BOOLEAN
    /\ c_pc = "start"
    /\ c_mode = "none"
    /\ c_i = 0
    /\ c_chunks = << >>
    /\ c_doc = NoTranslations
    /\ c_results = << >>
    /\ c_all = NoTranslations
    /\ c_sleeps = 0

\* whether the run takes the chunk loop: `batch_size and len(sentences) >
\* batch_size` in InteractiveTranslationCLI.translate, `len(sentences) >
\* batch_size` in TranslationCLI.translate_file
uses_batches(client, n, batch_size) ==
    IF client = "interactive"
    THEN batch_size # 0 /\ n > batch_size
    ELSE n > batch_size

\* sentences[i:i + batch_size] for 0 <= i < len(sentences), batch_size > 0
slice(sentences, i, batch_size) ==
    SubSeq(sentences, i + 1,
           IF i + batch_size < Len(sentences) THEN i + batch_size
           ELSE Len(sentences))

\* whether range(0, n, batch_size) yields the value i
in_range(i, n, batch_size) == batch_size > 0 /\ i < n

\* the decision between one request and the chunk loop; range() raises
\* ValueError for a step of 0, which translate_file does not catch
BatchStart ==
    /\ c_pc = "start"
    /\ IF uses_batches(cli, Len(c_sentences), c_batch)
       THEN /\ c_mode' = "batches"
            /\ c_pc' = IF c_batch = 0 THEN "crash" ELSE "next"
            /\ c_all' = [l \in {c_targets[k] : k \in 1..Len(c_targets)} |-> << >>]
       ELSE /\ c_mode' = "single"
            /\ c_pc' = "next"
            /\ UNCHANGED c_all
    /\ UNCHANGED <<cli, c_sentences, c_targets, c_batch, c_s3, c_i, c_chunks,
                   c_doc, c_results, c_sleeps>>
    /\ UNCHANGED <<serverVars, pollVars, histVars, progVars, raceVars, uiVars>>

\* the server's work on one chunk: process_translations of the chunk
server_result(targets, chunk, F) ==
    process_translations("en", [k \in 1..Len(targets) |-> Lang(targets[k])],
                         chunk, F)

\* the head of the chunk loop: submit the next chunk (requests.post), or
\* leave the loop; without batching the whole list is submitted once
BatchSend ==
    /\ c_pc = "next"
    /\ LET more == IF c_mode = "batches"
                   THEN in_range(c_i, Len(c_sentences), c_batch)
                   ELSE c_chunks = << >>
           chunk == IF c_mode = "batches"
                    THEN slice(c_sentences, c_i, c_batch)
                    ELSE c_sentences
       IN IF more
          THEN /\ c_chunks' = Append(c_chunks, chunk)
               /\ \E F \in ChunkFailChoices :
                     c_doc' = server_result(c_targets, chunk, F)
               /\ c_pc' = "inflight"
          ELSE /\ c_pc' = "done"
               /\ UNCHANGED <<c_chunks, c_doc>>
    /\ UNCHANGED <<cli, c_sentences, c_targets, c_batch, c_s3, c_mode, c_i,
                   c_results, c_all, c_sleeps>>
    /\ UNCHANGED <<serverVars, pollVars, histVars, progVars, raceVars, uiVars>>

\* the normalisation at the end of translate: setdefault(lang, []) for
\* every target language
normalize(translations_data, targets) ==
    [l \in DOMAIN translations_data \cup {targets[k] : k \in 1..Len(targets)} |->
        IF l \in DOMAIN translations_data THEN translations_data[l] ELSE << >>]

RECURSIVE extend_all(_, _, _, _)
\* the accumulation loop of _translate_in_batches over the first k entries
\* of target_langs: all_translations[lang].extend(result['translations'][lang])
extend_all(all, targets, k, result) ==
    IF k = 0 THEN all
    ELSE LET prev == extend_all(all, targets, k - 1, result)
         IN IF targets[k] \in DOMAIN result
            THEN [prev EXCEPT ![targets[k]] = @ \o result[targets[k]]]
            ELSE prev

\* the delay made after every chunk, the last one included
delay_follows_always(i, batch_size, n) == TRUE

\* `if i + batch_size < len(sentences): time.sleep(1)`: the delay is made
\* when another chunk follows
delay_follows(i, batch_size, n) == i + batch_size < n

\* the job id of the n-th request of the run: a fresh uuid each time
ChunkId(n) == <<"j", ToString(n)>>

\* translate recorded the job in the history and returned result for the
\* chunk: append it, accumulate, and go on (time.sleep(1) when another
\* chunk follows)
Returned(result) ==
    /\ save_to_history(Record(ChunkId(Len(c_results) + 1), Len(h_all) + 1))
    /\ c_results' = Append(c_results, result)
    /\ UNCHANGED c_sleeps
    /\ IF c_mode = "batches"
       THEN /\ c_all' = IF cli = "interactive"
                        THEN extend_all(c_all, c_targets, Len(c_targets), result)
                        ELSE c_all
            /\ c_i' = c_i + c_batch
            /\ c_pc' = IF delay_follows(c_i, c_batch, Len(c_sentences))
                       THEN "pause" ELSE "next"
       ELSE /\ c_pc' = "next"
            /\ UNCHANGED <<c_all, c_i>>

\* what translate does with a submission that failed: a variant that goes
\* back to the head of the loop and submits the chunk again
submission_failed_retry ==
    /\ c_pc' = "next"
    /\ UNCHANGED <<c_results, c_all, c_i, c_sleeps, pollVars, histVars>>

\* what translate does with a submission that failed (requests Timeout,
\* RequestException, a non-200 answer, a body that is not JSON): it prints
\* the failure and ends the process with sys.exit(1), which nothing above
\* it catches
submission_failed ==
    /\ c_pc' = "exit"
    /\ UNCHANGED <<c_results, c_all, c_i, c_sleeps, pollVars, histVars>>

\* the response to the chunk in flight: a failure (timeout, transport
\* error, non-200 answer, body that is not JSON) ends the process with
\* sys.exit(1); a success carries the translations inline or not.  The
\* interactive client polls when they are missing and it has an S3 client.
BatchRespond ==
    /\ c_pc = "inflight"
    /\ \E r \in {"failed", "inline", "no_inline"} :
          IF r = "failed"
          THEN submission_failed
          ELSE IF r = "inline"
          THEN /\ Returned(IF cli = "interactive"
                           THEN normalize(c_doc, c_targets) ELSE c_doc)
               /\ UNCHANGED pollVars
          ELSE IF cli = "interactive" /\ c_s3
          THEN /\ c_pc' = "poll"
               /\ poller' = "cli"
               /\ p_pc' = "loop"
               /\ p_ready' \in ReadyTimes
               /\ p_doc' = c_doc
               /\ UNCHANGED <<p_attempt, p_reads, p_sleeps, p_seen,
                              p_cancelled, p_outcome, p_result, p_status,
                              p_view>>
               /\ UNCHANGED <<c_results, c_all, c_i, c_sleeps, histVars>>
          ELSE /\ Returned(IF cli = "interactive"
                           THEN normalize(NoTranslations, c_targets)
                           ELSE NoTranslations)
               /\ UNCHANGED pollVars
    /\ UNCHANGED <<cli, c_sentences, c_targets, c_batch, c_s3, c_mode,
                   c_chunks, c_doc>>
    /\ UNCHANGED <<serverVars, progVars, raceVars, uiVars>>

\* the end of the polling loop inside translate: the translations of the
\* document when one was found, {} when the attempts are used up; a read
\* failure other than NoSuchKey leaves translate with an exception
BatchPolled ==
    /\ c_pc = "poll"
    /\ p_pc = "done"
    /\ IF p_outcome = "error"
       THEN /\ c_pc' = "raised"
            /\ UNCHANGED <<c_results, c_all, c_i, c_sleeps, histVars>>
       ELSE Returned(normalize(p_result, c_targets))
    /\ poller' = "cli"
    /\ p_pc' = "idle"
    /\ p_attempt' = 0
    /\ p_reads' = 0
    /\ p_sleeps' = 0
    /\ p_seen' = {}
    /\ p_cancelled' = FALSE
    /\ p_outcome' = "none"
    /\ p_ready' = 0
    /\ p_doc' = NoTranslations
    /\ p_result' = NoTranslations
    /\ UNCHANGED <<p_status, p_view>>
    /\ UNCHANGED <<cli, c_sentences, c_targets, c_batch, c_s3, c_mode,
                   c_chunks, c_doc>>
    /\ UNCHANGED <<serverVars, progVars, raceVars, uiVars>>

\* time.sleep(1) between two chunks
BatchPause ==
    /\ c_pc = "pause"
    /\ c_pc' = "next"
    /\ c_sleeps' = c_sleeps + 1
    /\ UNCHANGED <<cli, c_sentences, c_targets, c_batch, c_s3, c_mode, c_i,
                   c_chunks, c_doc, c_results, c_all>>
    /\ UNCHANGED <<serverVars, pollVars, histVars, progVars, raceVars, uiVars>>

BatchNext ==
    \/ BatchStart \/ BatchSend \/ BatchRespond \/ BatchPolled \/ BatchPause
    \/ PollLoop \/ PollRead \/ PollSleep

BatchSpec == BatchInit /\ [][BatchNext]_vars

(***************************************************************************)
(* The progress display of one submission                                  *)
(***************************************************************************)
\* `while progress_bar.n < 95` / `min(95, ...)` of _animate_progress
InterpolationCap == 95
\* steps of simulate_progress
steps == 100
\* values (elapsed / estimated_time) * 100 can take, in percent
Levels == {0, 40, 80, 95, 130}
\* how requests.post can end
Outcomes == {"success", "error_response", "timeout", "transport_error"}

ProgInit ==
    /\ ServerIdle
    /\ PollIdle
    /\ BatchIdle
    /\ HistIdle
    /\ RaceIdle
    /\ UiIdle
    /\ g_client \in {"cli", "gui"}
    /\ g_pc = "post"
    /\ g_outcome = "none"
    /\ g_anim = IF g_client = "cli" THEN "check" ELSE "loop"
    /\ g_i = 0
    /\ g_attempt = 0
    /\ g_progress = 0
    /\ g_writer = "none"

\* _animate_progress: the test of `while progress_bar.n < 95`
AnimCheck ==
    /\ g_client = "cli"
    /\ g_anim = "check"
    /\ g_anim' = IF g_progress < InterpolationCap THEN "write" ELSE "end"
    /\ UNCHANGED <<g_client, g_pc, g_outcome, g_i, g_attempt, g_progress,
                   g_writer>>
    /\ UNCHANGED <<serverVars, pollVars, batchVars, histVars, raceVars, uiVars>>

\* _animate_progress: the body of the loop; elapsed time never decreases
AnimWrite ==
    /\ g_client = "cli"
    /\ g_anim = "write"
    /\ \E level \in Levels :
          /\ level >= g_i
          /\ g_i' = level
          /\ g_progress' = IF level < InterpolationCap THEN level
                           ELSE InterpolationCap
    /\ g_writer' = "anim"
    /\ g_anim' = "check"
    /\ UNCHANGED <<g_client, g_pc, g_outcome, g_attempt>>
    /\ UNCHANGED <<serverVars, pollVars, batchVars, histVars, raceVars, uiVars>>

\* simulate_progress: one iteration of `for i in range(steps)`, whose
\* ('progress', i) process_queue hands to progress_var in queue order
SimStep ==
    /\ g_client = "gui"
    /\ g_anim = "loop"
    /\ IF g_i < steps
       THEN /\ g_progress' = g_i
            /\ g_i' = g_i + 1
            /\ g_writer' = "anim"
            /\ UNCHANGED g_anim
       ELSE /\ g_anim' = "end"
            /\ UNCHANGED <<g_i, g_progress, g_writer>>
    /\ UNCHANGED <<g_client, g_pc, g_outcome, g_attempt>>
    /\ UNCHANGED <<serverVars, pollVars, batchVars, histVars, raceVars, uiVars>>

\* requests.post returns a 200 answer or an error answer, or raises
Respond ==
    /\ g_pc = "post"
    /\ g_outcome' \in Outcomes
    /\ g_pc' = "responded"
    /\ UNCHANGED <<g_client, g_anim, g_i, g_attempt, g_progress, g_writer>>
    /\ UNCHANGED <<serverVars, pollVars, batchVars, histVars, raceVars, uiVars>>

\* run_translation polling S3 after a 200 answer: one iteration's
\* ('progress', 50 + attempt / max_attempts * 45)
PollProgress ==
    /\ g_client = "gui"
    /\ g_pc = "responded"
    /\ g_outcome = "success"
    /\ g_attempt < GuiPollAttempts
    /\ g_progress' = 50 + (g_attempt * 45) \div GuiPollAttempts
    /\ g_writer' = "submit"
    /\ g_attempt' = g_attempt + 1
    /\ UNCHANGED <<g_client, g_pc, g_outcome, g_anim, g_i>>
    /\ UNCHANGED <<serverVars, pollVars, batchVars, histVars, raceVars, uiVars>>

\* the submitting thread after requests.post.  Both command-line clients
\* set progress_bar.n = 100 as soon as any answer has arrived, before they
\* look at its status; an exception skips the assignment.  run_translation
\* queues ('progress', 100) on the 200 branch only.
AfterResponse ==
    /\ g_pc = "responded"
    /\ IF \/ g_client = "cli" /\ g_outcome \in {"success", "error_response"}
          \/ g_client = "gui" /\ g_outcome = "success"
       THEN /\ g_progress' = 100
            /\ g_writer' = "submit"
       ELSE UNCHANGED <<g_progress, g_writer>>
    /\ g_pc' = "done"
    /\ UNCHANGED <<g_client, g_outcome, g_anim, g_i, g_attempt>>
    /\ UNCHANGED <<serverVars, pollVars, batchVars, histVars, raceVars, uiVars>>

\* process_queue on ('complete', None): the bar is reset for the next job
Complete ==
    /\ g_client = "gui"
    /\ g_pc = "done"
    /\ g_pc' = "complete"
    /\ g_progress' = 0
    /\ g_writer' = "reset"
    /\ UNCHANGED <<g_client, g_outcome, g_anim, g_i, g_attempt>>
    /\ UNCHANGED <<serverVars, pollVars, batchVars, histVars, raceVars, uiVars>>

ProgNext ==
    \/ AnimCheck \/ AnimWrite \/ SimStep
    \/ Respond \/ PollProgress \/ AfterResponse \/ Complete

ProgSpec == ProgInit /\ [][ProgNext]_vars

\* C19: the progress value shown for a submission never decreases while
\* the submission runs, whatever the interleaving of the animation thread
\* and the submitting thread: after the submitting thread has set 100 no
\* write of the animation thread lowers it.
C19_ProgressNeverDecreases ==
    [][g_pc' # "complete" => g_progress' >= g_progress]_vars

\* C20: a value written by the interpolation never exceeds 95, and the
\* value is 100 only for a submission that was answered with success.
C20_HundredOnlyOnSuccess ==
    /\ (g_writer = "anim" => g_progress <= InterpolationCap)
    /\ (g_progress = 100 => g_outcome = "success")

(***************************************************************************)
(* Two processes appending to the same history file                        *)
(***************************************************************************)
\* a history record with the field whose text varies in length
CountedRecord(id, n, count) ==
    [translation_id |-> id, timestamp |-> n, sentence_count |-> count]
\* the sentence counts of the records: one and two digits
SentenceCounts == {5, 50}
\* the text of a record up to its sentence count (a length unit, the same
\* for every record: ids and timestamps have a fixed width)
RecordText == 10
\* the length of the text json.dump writes for a list of records
DumpLen(items) ==
    2 + Len(items) * (RecordText + 1)
      + Cardinality({i \in 1..Len(items) : items[i].sentence_count >= 10})
\* a ledger of n records written earlier
CountedLedger(n) == [i \in 1..n |-> CountedRecord(<<"c", "d", "1">>, i, 5)]
RaceLedgerSizes == {0, 1, HistoryCap - 1, HistoryCap}
\* the id of the job each process records
RaceId(p) == IF p = "p1" THEN <<"a", "b", "1">> ELSE <<"a", "b", "2">>
\* a file that holds no text: json.load raises on it
EmptyFile == File("unparsable", ListVal(<< >>))
\* a file whose text is a list followed by the rest of a longer text
GarbledFile == File("unparsable", ListVal(<< >>))

RaceInit ==
    /\ ServerIdle
    /\ PollIdle
    /\ BatchIdle
    /\ HistIdle
    /\ ProgIdle
    /\ UiIdle
    /\ r_pc = [p \in Procs |-> "load"]
    /\ r_history = [p \in Procs |-> << >>]
    /\ \E c \in [Procs -> SentenceCounts] :
          r_record = [p \in Procs |-> CountedRecord(RaceId(p), HistoryCap + 1, c[p])]
    /\ \E n \in RaceLedgerSizes :
          \/ /\ r_file = File("json", ListVal(CountedLedger(n)))
             /\ r_len = DumpLen(CountedLedger(n))
          \/ /\ n = 0
             /\ r_file = MissingFile
             /\ r_len = 0
    /\ r_last = "none"

\* history = self._load_history(); history.append(record); the cut to the
\* last 100 records.  append raises when the loaded value is not a list
RaceLoad(p) ==
    /\ r_pc[p] = "load"
    /\ LET history == load_history(r_file)
       IN IF history.isList
          THEN /\ r_history' = [r_history EXCEPT ![p] =
                      keep_last(Append(history.items, r_record[p]), HistoryCap)]
               /\ r_pc' = [r_pc EXCEPT ![p] = "open"]
          ELSE /\ r_pc' = [r_pc EXCEPT ![p] = "done"]
               /\ UNCHANGED r_history
    /\ UNCHANGED <<r_record, r_file, r_len, r_last>>
    /\ UNCHANGED <<serverVars, pollVars, batchVars, histVars, progVars, uiVars>>

\* open(self.history_file, 'w'): the file is cut to length 0
RaceOpen(p) ==
    /\ r_pc[p] = "open"
    /\ r_file' = EmptyFile
    /\ r_len' = 0
    /\ r_pc' = [r_pc EXCEPT ![p] = "dump"]
    /\ UNCHANGED <<r_history, r_record, r_last>>
    /\ UNCHANGED <<serverVars, pollVars, batchVars, histVars, progVars, uiVars>>

\* the text in the file after a text of the list items was written from
\* position 0 over a text of length len: the new text, followed by the rest
\* of the old one when that was longer
written_over(items, len) ==
    IF DumpLen(items) >= len THEN File("json", ListVal(items)) ELSE GarbledFile

\* json.dump(history, f) and the close of the file: the text is written
\* from position 0 of the file as it is then
RaceDump(p) ==
    /\ r_pc[p] = "dump"
    /\ r_file' = written_over(r_history[p], r_len)
    /\ r_len' = IF DumpLen(r_history[p]) >= r_len THEN DumpLen(r_history[p])
                ELSE r_len
    /\ r_last' = p
    /\ r_pc' = [r_pc EXCEPT ![p] = "done"]
    /\ UNCHANGED <<r_history, r_record>>
    /\ UNCHANGED <<serverVars, pollVars, batchVars, histVars, progVars, uiVars>>

RaceNext == \E p \in Procs : RaceLoad(p) \/ RaceOpen(p) \/ RaceDump(p)

RaceSpec == RaceInit /\ [][RaceNext]_vars

\* both processes ran _save_to_history to its end
BothDone == \A p \in Procs : r_pc[p] = "done"
\* whether the file holds a list in which the record of p occurs
FileHolds(p) ==
    /\ r_file.kind = "json"
    /\ r_file.value.isList
    /\ \E i \in 1..Len(r_file.value.items) :
          r_file.value.items[i] = r_record[p]

\* C27: when two processes append to the same ledger concurrently, the
\* ledger afterwards is in every interleaving a well-formed list of at most
\* 100 records that contains the record of the process that wrote last
\* (and possibly not the record of the other one).
C27_LedgerWellFormedAfterRace ==
    BothDone =>
        /\ r_file.kind = "json"
        /\ r_file.value.isList
        /\ Len(r_file.value.items) <= HistoryCap
        /\ FileHolds(r_last)

(***************************************************************************)
(* The GUI: start_translation, the worker run_translation, process_queue   *)
(***************************************************************************)
\* how a run of the worker can go: translations in the response, found by
\* polling, not found by polling (with the bucket of the response equal to
\* or different from the configured one), an answer other than 200, an
\* exception (of requests.post, for instance)
RunOutcomes == {"inline", "found", "timeout", "timeout_mismatch",
                "error_response", "exception"}

\* the messages run_translation puts before the request
BeforeRequest == <<"status", "progress", "status">>
\* the messages of the polling part up to the end of the loop (one
\* iteration of the loop shown)
Polling == <<"status", "polling_info", "progress", "status">>
\* the messages of lines 796-798
Finished == <<"progress", "status", "result">>

\* the kinds of the messages run_translation puts into the queue, in
\* order; the finally clause puts 'complete' last on every path
messages(outcome) ==
    CASE outcome = "inline" ->
            BeforeRequest \o Finished \o <<"complete">>
      [] outcome = "found" ->
            BeforeRequest \o Polling \o <<"status">> \o Finished \o <<"complete">>
      [] outcome = "timeout" ->
            BeforeRequest \o Polling \o <<"status">> \o Finished \o <<"complete">>
      [] outcome = "timeout_mismatch" ->
            BeforeRequest \o Polling \o <<"status", "bucket_mismatch">>
                \o Finished \o <<"complete">>
      [] outcome = "error_response" ->
            BeforeRequest \o <<"error", "complete">>
      [] outcome = "exception" ->
            BeforeRequest \o <<"error", "complete">>

UiInit ==
    /\ ServerIdle
    /\ PollIdle
    /\ BatchIdle
    /\ HistIdle
    /\ ProgIdle
    /\ RaceIdle
    /\ UiIdle

\* start_translation with valid inputs (the button can be pressed only
\* while it is enabled): the button is disabled and the worker started
StartTranslation ==
    /\ u_button = "normal"
    /\ u_button' = "disabled"
    /\ u_pc' = "running"
    /\ u_outcome' \in RunOutcomes
    /\ u_sent' = 0
    /\ UNCHANGED <<u_queue, u_pump>>
    /\ UNCHANGED <<serverVars, pollVars, batchVars, histVars, progVars, raceVars>>

\* the worker puts its next message into the queue
WorkerPut ==
    /\ u_pc = "running"
    /\ u_queue' = Append(u_queue, messages(u_outcome)[u_sent + 1])
    /\ u_sent' = u_sent + 1
    /\ u_pc' = IF u_sent + 1 = Len(messages(u_outcome)) THEN "finished"
               ELSE "running"
    /\ UNCHANGED <<u_outcome, u_button, u_pump>>
    /\ UNCHANGED <<serverVars, pollVars, batchVars, histVars, progVars, raceVars>>

\* the kinds of message whose branch in process_queue raises:
\* 'bucket_mismatch' calls self.suggest_bucket_fix, which TranslationGUI
\* does not define (AttributeError)
raising_kinds == {"bucket_mismatch"}

\* one iteration of the loop of process_queue: get_nowait takes the oldest
\* message and its branch runs.  'complete' enables the button.  An
\* exception other than queue.Empty leaves process_queue before
\* root.after(100, self.process_queue), so it is never called again.  (The
\* dialog of 'error' is closed by the user.)
ProcessMessage ==
    /\ u_pump = "scheduled"
    /\ u_queue # << >>
    /\ u_queue' = Tail(u_queue)
    /\ u_button' = IF Head(u_queue) = "complete" THEN "normal" ELSE u_button
    /\ u_pump' = IF Head(u_queue) \in raising_kinds THEN "dead" ELSE "scheduled"
    /\ UNCHANGED <<u_pc, u_outcome, u_sent>>
    /\ UNCHANGED <<serverVars, pollVars, batchVars, histVars, progVars, raceVars>>

UiNext == StartTranslation \/ WorkerPut \/ ProcessMessage

UiSpec == UiInit /\ [][UiNext]_vars

\* the worker thread keeps running and the Tk main loop keeps calling the
\* callbacks it has scheduled
UiFairSpec == UiSpec /\ WF_vars(WorkerPut) /\ WF_vars(ProcessMessage)

\* C30: every run started by start_translation, which disables the
\* translate button, eventually has its 'complete' message processed, so
\* the button is eventually enabled again after every outcome of the run.
C30_ButtonEventuallyReenabled ==
    (u_button = "disabled") ~> (u_button = "normal")

(***************************************************************************)
(* Properties of the client run                                            *)
(***************************************************************************)
RECURSIVE Flatten(_)
\* the concatenation of the chunks in order
Flatten(chunks) ==
    IF chunks = << >> THEN << >>
    ELSE Flatten(SubSeq(chunks, 1, Len(chunks) - 1)) \o chunks[Len(chunks)]

\* C8: for every sentence list, batch size B >= 1 and target language L,
\* the sequence _translate_in_batches accumulates for L has one entry per
\* sentence and its position i holds the translation of sentence i (the
\* result of a single chunk, by position), for every outcome of the chunk
\* submissions that lets the run complete, a poll that found nothing
\* included.
C8_BatchingEquivalence ==
    c_pc = "done" /\ cli = "interactive" /\ c_mode = "batches" /\ c_batch >= 1 =>
        \A k \in 1..Len(c_targets) :
            LET seq == c_all[c_targets[k]]
            IN /\ Len(seq) = Len(c_sentences)
               /\ \A i \in 1..Len(seq) :
                     seq[i] \in {TranslatedText(Strip(c_sentences[i]), "en",
                                                c_targets[k]),
                                 ErrorMarker}

\* C9: for every sentence list of length N >= 1 and every batch size B the
\* caller supplies, the client submits exactly ceil(N / B) chunks, each of
\* at most B sentences and only the last smaller than B, whose
\* concatenation in order is the input; when N <= B it submits the input
\* as one chunk.
C9_ChunksPartitionInput ==
    /\ c_pc # "crash"
    /\ (c_pc = "done" =>
          /\ Flatten(c_chunks) = c_sentences
          /\ \A j \in 1..Len(c_chunks) :
                /\ Len(c_chunks[j]) <= c_batch
                /\ (j < Len(c_chunks) => Len(c_chunks[j]) = c_batch)
          /\ Len(c_chunks) * c_batch >= Len(c_sentences)
          /\ (Len(c_chunks) - 1) * c_batch < Len(c_sentences)
          /\ (Len(c_sentences) <= c_batch => c_chunks = <<c_sentences>>))

\* C21: when the submission of a chunk ends in a timeout, a transport error
\* or a non-200 answer (the step out of "inflight" that neither returns a
\* result nor starts a poll), the run ends there: that step writes nothing
\* to the history, and afterwards no chunk is submitted, the failed one
\* included, and the history stays as it is.
C21_FailedSubmissionAborts ==
    /\ [][c_pc = "inflight" /\ c_results' = c_results /\ p_pc' = "idle" =>
            c_pc' = "exit" /\ h_file' = h_file /\ h_count' = h_count]_vars
    /\ [][c_pc = "exit" =>
            c_chunks' = c_chunks /\ h_file' = h_file /\ c_pc' = "exit"]_vars

\* the second of three chunks failed: one result, two submissions, the
\* third chunk never sent
C21_Witness ==
    /\ c_pc = "exit"
    /\ c_mode = "batches"
    /\ c_batch = 1
    /\ Len(c_sentences) = 3
    /\ Len(c_chunks) = 2
    /\ Len(c_results) = 1

\* C22: a run in several chunks that fails at a chunk on a timeout or
\* transport error leaves the ledger as it was before the run started,
\* also when earlier chunks of the run had succeeded.
C22_FailedRunLeavesLedgerUntouched ==
    c_pc = "exit" /\ c_mode = "batches" =>
        /\ load_history(h_file) = load_history(MissingFile)
        /\ h_count = 0

\* the index at which the k-th chunk of a run in chunks of B starts
ChunkStart(k) == (k - 1) * c_batch

\* C26: within a run in several chunks the chunks are submitted one after
\* the other in the original order.  A request is sent only when every
\* earlier request has returned its result and no poll is running, so at
\* most one request is in flight; the k-th request carries the sentences
\* from position (k-1)*B on; and one delay of a second has been made between
\* each two consecutive submissions and none after the last: with k chunks
\* submitted, k-1 delays were made, also when the run is over.
C26_ChunksSequentialWithDelay ==
    /\ [](c_mode = "batches" /\ c_chunks # << >> =>
            /\ c_sleeps = IF c_pc = "next" /\ c_i < Len(c_sentences)
                          THEN Len(c_chunks)
                          ELSE Len(c_chunks) - 1
            /\ Len(c_results) \in {Len(c_chunks) - 1, Len(c_chunks)}
            /\ (c_pc \in {"inflight", "poll"} =>
                   Len(c_results) = Len(c_chunks) - 1)
            /\ (p_pc # "idle" => c_pc = "poll")
            /\ \A k \in 1..Len(c_chunks) :
                  c_chunks[k] = slice(c_sentences, ChunkStart(k), c_batch))
    /\ [][c_chunks' # c_chunks =>
            /\ c_pc = "next" /\ c_pc' = "inflight"
            /\ p_pc = "idle"
            /\ Len(c_results) = Len(c_chunks)
            /\ Len(c_chunks') = Len(c_chunks) + 1]_vars

\* a run of three chunks of one sentence is over: two delays were made
C26_Witness ==
    /\ c_pc = "done"
    /\ c_mode = "batches"
    /\ Len(c_chunks) = 3
    /\ Len(c_results) = 3
    /\ c_sleeps = 2

(***************************************************************************)
(* Properties of the history ledger                                        *)
(***************************************************************************)
\* the file holds a list of records
IsLedger == h_file.kind = "json" /\ h_file.value.isList
Ledger == h_file.value.items
\* the most recent n of the records in items, oldest first
MostRecent(items, n) ==
    SubSeq(items, Len(items) - n + 1, Len(items))
Min(a, b) == IF a <= b THEN a ELSE b

\* C15: after every append the ledger holds at most 100 records, and they
\* are exactly the most recent min(k, 100) of the k records it was given,
\* in append order.
C15_LedgerKeepsLastHundred ==
    h_op = "append" =>
        /\ IsLedger
        /\ Len(Ledger) <= HistoryCap
        /\ Ledger = MostRecent(h_all, Min(Len(h_all), HistoryCap))

\* C16: a history file that is missing, that does not parse, or that
\* parses to something that is not a list of records loads as the empty
\* ledger, and no operation on it raises.
C16_CorruptLedgerLoadsEmpty ==
    h_op # "none" =>
        /\ ~h_error
        /\ (~IsLedger => load_history(h_file) = ListVal(<< >>))

\* C17: a lookup by id prefix returns the most recent record of the ledger
\* whose job id starts with the prefix (the one appended last when several
\* match), and nothing when no record matches.
C17_FindReturnsMostRecentMatch ==
    h_op = "find" /\ IsLedger =>
        LET hits == {i \in 1..Len(Ledger) :
                        startswith(Ledger[i].translation_id, h_arg.prefix)}
        IN IF hits = {} THEN h_out = << >>
           ELSE h_out = <<Ledger[CHOOSE i \in hits : \A j \in hits : j <= i]>>

\* C18: a listing with limit >= 0 returns exactly the min(limit, length)
\* most recent records of the ledger, newest first.
C18_ListNewestFirst ==
    h_op = "list" /\ IsLedger =>
        h_out = reversed(MostRecent(Ledger, Min(h_arg.limit, Len(Ledger))))

(***************************************************************************)
(* Properties of the server                                                *)
(***************************************************************************)
Targets == event.target_languages.items
Sentences == event.sentences.items
Accepted == pc \in {"store_input", "translate", "store_result"}
            \/ (pc = "done" /\ output_put # "none")
Translated == pc = "store_result" \/ (pc = "done" /\ output_put # "none")

WellShaped(tr, nkeys, n) ==
    /\ Cardinality(DOMAIN tr) = nkeys
    /\ \A l \in DOMAIN tr :
          /\ Len(tr[l]) = n
          /\ \A i \in 1..n : tr[l][i].kind \in {"translated", "error"}

\* C1: for an accepted request with N sentences and target-language list Targets,
\* the mapping built by process_translations, and the one written to the
\* output document, has exactly |Targets| keys, each an ordered sequence of
\* exactly N entries, translated text or error marker, whatever calls fail.
C1_MappingHasOneKeyPerTarget ==
    Translated =>
        /\ WellShaped(translations, Len(Targets), Len(Sentences))
        /\ \A o \in output_bucket : WellShaped(o.doc.translations, Len(Targets), Len(Sentences))

\* the calls made for the pair (sentence i, language of the k-th target)
CallsOfPair(k, i) == {kk \in 1..Len(Targets) : Targets[kk].code = Targets[k].code} \X {i}

\* the failed backend calls are exactly the calls made for one pair
OnePairFailed ==
    /\ failed # {}
    /\ LET c == CHOOSE x \in failed : TRUE
       IN failed = CallsOfPair(c[1], c[2])

\* C2: when the backend call fails for exactly one (sentence i, language L)
\* pair (the calls made for that pair raise, all other calls return),
\* position i of L's sequence holds the error marker, every other position
\* holds the value it holds when no call fails, every language still has
\* one entry per sentence, and the handler answers 200 once the result is
\* written.
C2_PartialFailureIsolated ==
    Translated /\ OnePairFailed =>
        LET c == CHOOSE x \in failed : TRUE
            clean == process_translations(event.source_language.code, Targets, Sentences, {})
        IN /\ DOMAIN translations = DOMAIN clean
           /\ \A l \in DOMAIN clean :
                /\ Len(translations[l]) = Len(Sentences)
                /\ \A j \in 1..Len(Sentences) :
                     IF l = Targets[c[1]].code /\ j = c[2]
                     THEN translations[l][j] = ErrorMarker
                     ELSE /\ translations[l][j] = clean[l][j]
                          /\ translations[l][j].kind = "translated"
           /\ (pc = "done" /\ output_put = "ok" =>
                  response.statusCode = 200 /\ response.success)

C2_Witness ==
    /\ pc = "done"
    /\ response.statusCode = 200
    /\ Len(Targets) = 2 /\ Len(Sentences) = 2 /\ Targets[1] # Targets[2]
    /\ failed = {<<1, 1>>}
    /\ translations[Targets[1].code][1] = ErrorMarker
    /\ translations[Targets[1].code][2].kind = "translated"

\* the rules of the validator as the specification lists them
Has(f) == f \in event.fields
BadCode(v) == ~v.isStr \/ v.len # 2
FormatA == BadCode(event.source_language)
FormatB == \/ ~event.target_languages.isList
           \/ Len(Targets) = 0
           \/ Len(Targets) > 10
           \/ \E k \in 1..Len(Targets) : BadCode(Targets[k])
BadSentence(x) == ~x.isStr \/ x.core = 0 \/ x.lead + x.core + x.trail > 5000
FormatC == \/ ~event.sentences.isList
           \/ Len(Sentences) = 0
           \/ Len(Sentences) > 100
           \/ \E i \in 1..Len(Sentences) : BadSentence(Sentences[i])
ViolatesA == ~Has("source_language") \/ FormatA
ViolatesB == ~Has("target_languages") \/ FormatB
ViolatesC == ~Has("sentences") \/ FormatC
Answered == pc = "done" /\ event.kind = "object"

MessagesA == {"Missing required field: source_language",
              "Source language must be a 2-character language code"}
MessagesB == {"Missing required field: target_languages",
              "Target languages must be a non-empty list",
              "Maximum 10 target languages allowed",
              "All target languages must be 2-character language codes"}
MessagesC == {"Missing required field: sentences",
              "Sentences must be a non-empty list",
              "Maximum 100 sentences allowed per request",
              "All sentences must be non-empty strings",
              "Each sentence must be less than 5000 characters"}

\* C3 as claimed: the error names the first violated rule in the order
\* (a) source_language present and 2 characters, (b) target_languages
\* present, non-empty, at most 10, each 2 characters, (c) sentences present,
\* non-empty, at most 100, each non-empty after trimming and at most 5000
\* characters; a request violating (a) is answered with the (a) error.
C3_RulesInClaimedOrder ==
    Answered =>
        /\ (ViolatesA => response.message \in MessagesA)
        /\ (~ViolatesA /\ ViolatesB => response.message \in MessagesB)
        /\ (~ViolatesA /\ ~ViolatesB /\ ViolatesC => response.message \in MessagesC)

\* C3 amended: the presence of the three fields is checked first, in the
\* order source_language, target_languages, sentences, and a missing field
\* is reported before any other rule; only when all three are present are
\* the remaining rules evaluated in the order (a), (b), (c), and within (b)
\* and (c) in the order listed.  One error is returned.
C3_PresenceThenRulesInOrder ==
    Answered =>
        IF ~Has("source_language")
        THEN response.message = "Missing required field: source_language"
        ELSE IF ~Has("target_languages")
        THEN response.message = "Missing required field: target_languages"
        ELSE IF ~Has("sentences")
        THEN response.message = "Missing required field: sentences"
        ELSE /\ (FormatA => response.message \in MessagesA)
             /\ (~FormatA /\ FormatB =>
                   /\ response.message \in MessagesB
                   /\ (~event.target_languages.isList \/ Len(Targets) = 0 =>
                         response.message = "Target languages must be a non-empty list")
                   /\ (event.target_languages.isList /\ Len(Targets) > 10 =>
                         response.message = "Maximum 10 target languages allowed"))
             /\ (~FormatA /\ ~FormatB /\ FormatC =>
                   /\ response.message \in MessagesC
                   /\ (~event.sentences.isList \/ Len(Sentences) = 0 =>
                         response.message = "Sentences must be a non-empty list")
                   /\ (event.sentences.isList /\ Len(Sentences) > 100 =>
                         response.message = "Maximum 100 sentences allowed per request"))
             /\ (~FormatA /\ ~FormatB /\ ~FormatC => response.statusCode # 400)

C3_Witness ==
    /\ Answered
    /\ Has("source_language") /\ FormatA
    /\ ~Has("sentences")
    /\ response.message = "Missing required field: sentences"

C5_TranslationsGeneratedIsProduct ==
    pc = "done" /\ response.statusCode = 200 =>
        response.summary.translations_generated = Len(Sentences) * Len(Targets)

\* C6: when the write of the output document fails the handler does not
\* answer with success: the caller receives a 500 with success = false.
C6_OutputWriteFailureIs500 ==
    pc = "done" /\ output_put = "raised" =>
        /\ response.statusCode = 500
        /\ ~response.success
        /\ response.error_code = 500
        /\ output_bucket = {}

C6_Witness ==
    /\ pc = "done" /\ output_put = "raised" /\ input_put = "ok"
    /\ response.statusCode = 500

\* C7: when the write of the input audit document fails, the job goes on:
\* every (sentence, language) pair is translated, the output document is
\* written, and the response is the success response of the run whose audit
\* write succeeded.
C7_InputWriteFailureSwallowed ==
    input_put = "raised" =>
        /\ pc \in {"translate", "store_result", "done"}
        /\ input_bucket = {}
        /\ (Translated =>
              translations = process_translations(event.source_language.code,
                                                  Targets, Sentences, failed))
        /\ (pc = "done" => output_put # "none")
        /\ (pc = "done" /\ output_put = "ok" =>
              LET okey == Key("translations", response.timestamp, translation_id, "")
              IN /\ output_bucket =
                      {[key |-> okey,
                        doc |-> output_document(translation_id, event, input_key,
                                                translations, response.timestamp)]}
                 /\ response = success_response(translation_id, input_key, okey,
                                    S3Url(OUTPUT_BUCKET, okey), event,
                                    translations, response.timestamp))

C7_Witness ==
    /\ pc = "done" /\ input_put = "raised" /\ output_put = "ok"
    /\ response.statusCode = 200
    /\ output_bucket # {}

\* C23: the year/month/day partition of the output key of a job is the
\* submission date used for the job's input audit key, however much time
\* passes between the start of the job and the writing of the result.
C23_OutputPartitionIsSubmissionDate ==
    pc = "done" /\ response.statusCode = 200 =>
        /\ response.output_location.key.day = response.input_location.key.day
        /\ response.output_location.key.id = response.input_location.key.id

\* whether a bucket holds an object under the key
Holds(bucket, key) == \E o \in bucket : o.key = key

\* C24: the server names a storage location only for a write that
\* succeeded: the success response names an input audit location only when
\* the audit document was written and an output location only when the
\* output document was written, and an output document refers to an input
\* audit document only when that document was written.
C24_LocationsOnlyForSuccessfulWrites ==
    /\ (pc = "done" /\ response.statusCode = 200 =>
          /\ (response.input_location # NoLocation =>
                 input_put = "ok"
                 /\ Holds(input_bucket, response.input_location.key))
          /\ (response.output_location # NoLocation =>
                 output_put = "ok"
                 /\ Holds(output_bucket, response.output_location.key)))
    /\ \A o \in output_bucket :
          o.doc.input_location # S3Url("", NoKey) =>
              Holds(input_bucket, o.doc.input_location.key)

\* a request whose three fields are present and whose source language and
\* target languages pass their rules apart from the number of languages
SourceFine == Answered /\ event.fields = {RequiredFields[n] : n \in 1..3}
              /\ ~FormatA
TargetCodesFine == /\ event.target_languages.isList
                   /\ \A k \in 1..Len(Targets) : ~BadCode(Targets[k])
SentencesAreText == /\ event.sentences.isList
                    /\ \A i \in 1..Len(Sentences) :
                          Sentences[i].isStr /\ Sentences[i].core > 0
LongestSentence ==
    CHOOSE n \in {StrLen(Sentences[i]) : i \in 1..Len(Sentences)} :
        \A i \in 1..Len(Sentences) : StrLen(Sentences[i]) <= n

C28_RejectionHasNoSideEffect ==
    pc = "done" /\ response.statusCode = 400 =>
        /\ translation_id = NoId
        /\ input_key = NoKey
        /\ translations = NoTranslations /\ failed = {}
        /\ input_put = "none" /\ output_put = "none"
        /\ input_bucket = {} /\ output_bucket = {}

\* a body that is not valid JSON, and a request with too many sentences,
\* were answered 400
C28_Witness ==
    /\ pc = "done"
    /\ response.statusCode = 400
    /\ \/ event.kind = "invalid_json"
       \/ response.message = "Maximum 100 sentences allowed per request"

\* the objects a bucket holds under a key
ObjectsAt(bucket, key) == {o \in bucket : o.key = key}
\* whether a mapping has, for every target language of the request, one
\* entry per sentence
CoversRequest(tr) ==
    \A k \in 1..Len(Targets) :
        /\ Targets[k].code \in DOMAIN tr
        /\ Len(tr[Targets[k].code]) = Len(Sentences)

\* C29: when the handler has answered 200, the output bucket holds under
\* the key of output_location exactly one document; its translation_id is
\* the one of the response and its translations cover every (sentence,
\* language) pair of the request.  The output document is written after
\* the backend calls, in the step that ends with the response, and a job
\* writes at most one input document and one output document.
C29_SuccessMeansResultStored ==
    /\ [](pc = "done" /\ response.statusCode = 200 =>
            /\ Cardinality(ObjectsAt(output_bucket, response.output_location.key)) = 1
            /\ \A o \in ObjectsAt(output_bucket, response.output_location.key) :
                  /\ o.doc.translation_id = response.translation_id
                  /\ o.doc.translations = translations
                  /\ CoversRequest(o.doc.translations))
    /\ [](Cardinality(input_bucket) <= 1 /\ Cardinality(output_bucket) <= 1)
    /\ [][output_bucket' # output_bucket =>
            pc = "store_result" /\ pc' = "done" /\ output_put = "none"
            /\ translations' = translations /\ response'.statusCode = 200]_vars
    /\ [][input_bucket' # input_bucket =>
            pc = "store_input" /\ input_put = "none"]_vars
    /\ [][translations' # translations => pc = "translate" /\ output_put = "none"
                                         /\ response = NoResponse]_vars

\* a job with two target languages and two sentences, one backend call of
\* which raised, was answered 200 after the date had changed
C29_Witness ==
    /\ pc = "done"
    /\ response.statusCode = 200
    /\ Len(Targets) = 2 /\ Len(Sentences) = 2
    /\ failed # {}
    /\ now = 2
    /\ output_bucket # {}

====
